---- MODULE Spec2Model ----
(***************************************************************************)
(* zj-git-branch: the branch-line parser (src/src/branch.rs), the list     *)
(* view / filterable tab (src/src/tab.rs) and the plugin's event handlers  *)
(* (src/src/main.rs), as one state machine.                                *)
(*                                                                         *)
(* Strings are sequences of one-character strings, so that the parser and  *)
(* the matcher compute on characters.  usize / isize keep a width of       *)
(* WordBits bits; arithmetic that the source does unchecked wraps.         *)
(***************************************************************************)
EXTENDS Integers, Sequences, FiniteSets, TLC

VARIABLES
    branch_type,          \* Git.branch_type: "Local" | "Remote"
    local_branches_tab,   \* Git.local_branches_tab : Tab<LocalBranch>
    remote_branches_tab,  \* Git.remote_branches_tab : Tab<RemoteBranch>
    error_message,        \* Git.error_message : Option<String>
    cwd,                  \* Git.cwd : Option<PathBuf>
    closed,               \* close_self() has been called
    panicked,             \* a handler panicked: the plugin instance is gone
    issued,               \* the host calls made by the last handled event
    last_event,           \* the last handled event, with the state it met
    hview,                \* a lone BranchesView, driven by SpecView
    hop,                  \* the last operation applied to hview
    line_fields,          \* the fields of a listing line, driven by SpecParse
    line_parsed,          \* the last parse of that line
    htab,                 \* a lone Tab<LocalBranch>, driven by SpecTab
    htop,                 \* the last operation applied to htab
    horigin               \* htab as it was when its input was last empty

vars == <<branch_type, local_branches_tab, remote_branches_tab, error_message,
          cwd, closed, panicked, issued, last_event, hview, hop, line_fields, line_parsed,
          htab, htop, horigin>>

plugin_vars == <<branch_type, local_branches_tab, remote_branches_tab,
                 error_message, cwd, closed, panicked, issued, last_event>>

harness_vars == <<hview, hop>>

parse_vars == <<line_fields, line_parsed>>

tab_vars == <<htab, htop, horigin>>

-----------------------------------------------------------------------------
(* Bounds                                                                  *)

\* width of usize / isize in bits
WordBits == 5
\* longest record list of the lone view of SpecView
MaxLen == 3
\* tallest render area handed to a tab operation (heights are 0..MaxHeight)
MaxHeight == 12
\* longest query typed into a tab
MaxInput == 1

\* Option<T>: None, or Some(v)
None == <<>>

Some(v) == <<v>>

unwrap(o) == o[1]

-----------------------------------------------------------------------------
(* Machine integers                                                        *)

RECURSIVE Pow2(_)
Pow2(n) == IF n = 0 THEN 1 ELSE 2 * Pow2(n - 1)

USIZE == Pow2(WordBits)

usize == 0 .. (USIZE - 1)

isize == (0 - Pow2(WordBits - 1)) .. (Pow2(WordBits - 1) - 1)

\* unchecked usize + and -: two's complement wrap-around
wrapping_add(a, b) == (a + b) % USIZE

wrapping_sub(a, b) == (a - b) % USIZE

saturating_sub(a, b) == IF a >= b THEN a - b ELSE 0

\* isize::unsigned_abs
unsigned_abs(i) == IF i < 0 THEN 0 - i ELSE i

\* `offset as usize` for an isize
as_usize(i) == i % USIZE

usize_min(a, b) == IF a <= b THEN a ELSE b

-----------------------------------------------------------------------------
(* RenderArea                                                              *)

Y_PADDING == 1

FOOTER_HEIGHT == 2

RenderArea_new(width, height) == [width |-> width, height |-> height]

input_coordinates(ra) ==
    [x |-> 1, y |-> 2, width |-> Some(wrapping_sub(ra.width, 3)), height |-> Some(1)]

branch_list_coordinates(ra) ==
    LET ic == input_coordinates(ra)
        y  == wrapping_add(wrapping_add(ic.y, unwrap(ic.height)), Y_PADDING)
    IN  [x |-> 1, y |-> y,
         width  |-> Some(wrapping_sub(ra.width, 3)),
         height |-> Some(wrapping_sub(wrapping_sub(wrapping_sub(ra.height, y),
                                                   Y_PADDING), FOOTER_HEIGHT))]

visible_branch_count(ra) ==
    wrapping_sub(unwrap(branch_list_coordinates(ra).height), 2)

-----------------------------------------------------------------------------
(* BranchesView<T>                                                         *)

BranchesView_default == [branches |-> <<>>, selected_index |-> 0, scroll_offset |-> 0]

BranchesView_new(branches) == [BranchesView_default EXCEPT !.branches = branches]

\* what a panicking expression yields
Panic == <<"panic", "index out of bounds">>

\* selected_branch without the is_empty test: it indexes an empty list
selected_branch_unchecked(view) ==
    IF view.selected_index < Len(view.branches)
    THEN Some(view.branches[view.selected_index + 1])
    ELSE Panic

\* Some(record) or None; indexing past the end panics
selected_branch(view) ==
    IF view.branches # <<>>
    THEN IF view.selected_index < Len(view.branches)
         THEN Some(view.branches[view.selected_index + 1])
         ELSE Panic
    ELSE None

\* offset_selected_index without the saturation at the last record
offset_selected_index_unclamped(view, offset) ==
    IF offset > 0
    THEN [view EXCEPT !.selected_index =
              wrapping_add(view.selected_index, as_usize(offset))]
    ELSE IF offset < 0
    THEN [view EXCEPT !.selected_index =
              saturating_sub(view.selected_index, unsigned_abs(offset))]
    ELSE view

offset_selected_index(view, offset) ==
    IF offset > 0
    THEN [view EXCEPT !.selected_index =
              usize_min(wrapping_add(view.selected_index, as_usize(offset)),
                        saturating_sub(Len(view.branches), 1))]
    ELSE IF offset < 0
    THEN [view EXCEPT !.selected_index =
              saturating_sub(view.selected_index, unsigned_abs(offset))]
    ELSE view

\* scroll_selected_to_view that brings the selection to the window instead
\* of the window to the selection
scroll_selected_to_view_moves_selection(view, render_area) ==
    LET count == visible_branch_count(render_area) IN
    IF view.selected_index < view.scroll_offset
    THEN [view EXCEPT !.selected_index = view.scroll_offset]
    ELSE IF view.selected_index > wrapping_add(view.scroll_offset, count)
    THEN [view EXCEPT !.selected_index = wrapping_add(view.scroll_offset, count)]
    ELSE view

scroll_selected_to_view(view, render_area) ==
    LET count == visible_branch_count(render_area) IN
    IF view.selected_index < view.scroll_offset
    THEN [view EXCEPT !.scroll_offset = view.selected_index]
    ELSE IF view.selected_index > wrapping_add(view.scroll_offset, count)
    THEN [view EXCEPT !.scroll_offset = wrapping_sub(view.selected_index, count)]
    ELSE view

\* `if let Some(render_area) = render_area { view.scroll_selected_to_view(..) }`
scroll_if_some(view, render_area) ==
    IF render_area = None THEN view
    ELSE scroll_selected_to_view(view, unwrap(render_area))

-----------------------------------------------------------------------------
(* The render areas a tab operation can be handed                          *)

Width == 20

RenderAreas == {RenderArea_new(Width, h) : h \in 0 .. MaxHeight}

\* what the plugin hands its tabs: no area before the first draw, later the
\* area of the last draw
TabRenderAreas == {None} \cup {Some(RenderArea_new(Width, MaxHeight))}

-----------------------------------------------------------------------------
(* Characters and nom's primitive parsers (src/src/branch.rs)              *)
(* A parser result is [ok, rest, val, code]: on success the remaining      *)
(* input and the value, on failure the input nom's error points at and     *)
(* its ErrorKind.                                                          *)

Digits == {"0", "1", "2", "3", "4", "5", "6", "7", "8", "9"}

Lower == {"a", "b", "c", "d", "e", "f", "g", "h", "i", "j", "k", "l", "m",
          "n", "o", "p", "q", "r", "s", "t", "u", "v", "w", "x", "y", "z"}

Upper == {"A", "B", "C", "D", "E", "F", "G", "H", "I", "J", "K", "L", "M",
          "N", "O", "P", "Q", "R", "S", "T", "U", "V", "W", "X", "Y", "Z"}

\* char::is_ascii_alphanumeric
AsciiAlphanumeric == Digits \cup Lower \cup Upper

\* char::is_ascii_whitespace
AsciiWhitespace == {" ", "\t", "\n", "\f", "\r"}

\* nom AsChar::is_space
IsSpace == {" ", "\t"}

\* nom multispace0
MultiSpace == {" ", "\t", "\r", "\n"}

\* nom hex_digit1
HexDigits == Digits \cup {"a", "b", "c", "d", "e", "f", "A", "B", "C", "D", "E", "F"}

\* a byte that is no valid UTF-8
InvalidByte == "<FF>"

Ok(rest, val) == [ok |-> TRUE, rest |-> rest, val |-> val, code |-> None]

Err(input, code) == [ok |-> FALSE, rest |-> input, val |-> None, code |-> code]

Drop(s, n) == SubSeq(s, n + 1, Len(s))

Take(s, n) == SubSeq(s, 1, n)

\* length of the longest prefix of s whose characters are all in S
SpanIn(s, S) ==
    CHOOSE n \in 0 .. Len(s) :
        /\ \A i \in 1 .. n : s[i] \in S
        /\ n = Len(s) \/ s[n + 1] \notin S

\* length of the longest prefix of s with no character in S
SpanNotIn(s, S) ==
    CHOOSE n \in 0 .. Len(s) :
        /\ \A i \in 1 .. n : s[i] \notin S
        /\ n = Len(s) \/ s[n + 1] \in S

StartsWith(s, t) == Len(s) >= Len(t) /\ Take(s, Len(t)) = t

tag(t, s) == IF StartsWith(s, t) THEN Ok(Drop(s, Len(t)), t) ELSE Err(s, "Tag")

multispace0(s) == LET n == SpanIn(s, MultiSpace) IN Ok(Drop(s, n), Take(s, n))

\* nom character::complete::not_line_ending
not_line_ending(s) ==
    LET n == SpanNotIn(s, {"\r", "\n"}) IN
    IF n = Len(s) THEN Ok(<<>>, s)
    ELSE IF s[n + 1] = "\r" /\ ~StartsWith(Drop(s, n), <<"\r", "\n">>)
    THEN Err(s, "Tag")
    ELSE Ok(Drop(s, n), Take(s, n))

\* ws(inner) = delimited(multispace0, inner, multispace0), given inner's
\* result on the input after the leading white space
ws_after(r) == IF r.ok THEN Ok(multispace0(r.rest).rest, r.val) ELSE r

parse_current(s) ==
    IF StartsWith(s, <<"*">>) THEN Ok(Drop(s, 1), TRUE) ELSE Ok(s, FALSE)

parse_name_parenthesized(s) ==
    LET open == tag(<<"(">>, s) IN
    IF ~open.ok THEN open
    ELSE LET n == SpanIn(open.rest, AsciiAlphanumeric \cup AsciiWhitespace) IN
         IF n = 0 THEN Err(open.rest, "TakeWhile1")
         ELSE LET close == tag(<<")">>, Drop(open.rest, n)) IN
              IF close.ok THEN Ok(close.rest, Take(open.rest, n)) ELSE close

parse_name_token(s) ==
    LET n == SpanNotIn(s, IsSpace) IN
    IF n = 0 THEN Err(s, "TakeTill1") ELSE Ok(Drop(s, n), Take(s, n))

parse_name(s) ==
    LET first == parse_name_parenthesized(s) IN
    IF first.ok THEN first ELSE parse_name_token(s)

parse_commit_sha(s) ==
    LET n == SpanIn(s, HexDigits) IN
    IF n = 0 THEN Err(s, "HexDigit") ELSE Ok(Drop(s, n), Take(s, n))

parse_commit_message(s) == not_line_ending(s)

\* parse_branch_pointer with the arrow's trailing space left out of the tag
parse_branch_pointer_loose(s) ==
    LET arrow == tag(<<"-", ">">>, s) IN
    IF arrow.ok THEN not_line_ending(multispace0(arrow.rest).rest) ELSE arrow

parse_branch_pointer(s) ==
    LET arrow == tag(<<"-", ">", " ">>, s) IN
    IF arrow.ok THEN not_line_ending(arrow.rest) ELSE arrow

\* position of the first "]" of s, 0 when there is none
FindClose(s) ==
    IF \E i \in 1 .. Len(s) : s[i] = "]"
    THEN CHOOSE i \in 1 .. Len(s) : s[i] = "]" /\ \A j \in 1 .. (i - 1) : s[j] # "]"
    ELSE 0

\* parse_upstream_branch reading up to the last "]" of the line
parse_upstream_branch_greedy(s) ==
    LET open == tag(<<"[">>, s)
        ends == {i \in 1 .. Len(open.rest) : open.rest[i] = "]"}
        at   == IF ends = {} THEN 0 ELSE CHOOSE i \in ends : \A j \in ends : j <= i
    IN  IF open.ok /\ at > 1
        THEN Ok(Drop(open.rest, at), Some(Take(open.rest, at - 1)))
        ELSE Ok(s, None)

parse_upstream_branch(s) ==
    LET open == tag(<<"[">>, s)
        at   == FindClose(open.rest)
    IN  IF open.ok /\ at > 1
        THEN Ok(Drop(open.rest, at), Some(Take(open.rest, at - 1)))
        ELSE Ok(s, None)

ws_current(s) == ws_after(parse_current(multispace0(s).rest))

ws_name(s) == ws_after(parse_name(multispace0(s).rest))

ws_commit_sha(s) == ws_after(parse_commit_sha(multispace0(s).rest))

ws_upstream_branch(s) == ws_after(parse_upstream_branch(multispace0(s).rest))

ws_branch_pointer(s) == ws_after(parse_branch_pointer(multispace0(s).rest))

\* a message shown to the user: its fixed text, and for a nom error the
\* input the error points at and its ErrorKind
Message(text, input, code) == [text |-> text, input |-> input, code |-> code]

LocalBranch_error(e) == Message("Failed to parse branch line: {}", e.rest, e.code)

\* <LocalBranch as FromStr>::from_str: Ok(record) or Err(message)
LocalBranch_from_str(s) ==
    LET current == ws_current(s) IN
    LET name == ws_name(current.rest) IN
    IF ~name.ok THEN [ok |-> FALSE, err |-> LocalBranch_error(name)] ELSE
    LET commit_sha == ws_commit_sha(name.rest) IN
    IF ~commit_sha.ok THEN [ok |-> FALSE, err |-> LocalBranch_error(commit_sha)] ELSE
    LET upstream_branch == ws_upstream_branch(commit_sha.rest) IN
    LET commit_message == parse_commit_message(upstream_branch.rest) IN
    IF ~commit_message.ok THEN [ok |-> FALSE, err |-> LocalBranch_error(commit_message)]
    ELSE [ok |-> TRUE,
          val |-> [name |-> name.val,
                   current |-> current.val,
                   commit_sha |-> commit_sha.val,
                   upstream_branch |-> upstream_branch.val,
                   commit_message |-> commit_message.val]]

\* RemoteBranch::parse_reference: alt((commit form, pointer form))
parse_reference(s) ==
    LET sha == ws_commit_sha(s) IN
    LET message == IF sha.ok THEN parse_commit_message(sha.rest) ELSE sha IN
    IF message.ok
    THEN Ok(message.rest, [kind |-> "Commit", sha |-> sha.val, message |-> message.val])
    ELSE LET pointer == ws_branch_pointer(s) IN
         IF pointer.ok
         THEN Ok(pointer.rest, [kind |-> "Branch", target |-> pointer.val])
         ELSE pointer

RemoteBranch_error(e) == Message("Failed to parse remote branch line: {}", e.rest, e.code)

\* <RemoteBranch as FromStr>::from_str
RemoteBranch_from_str(s) ==
    LET name == ws_name(s) IN
    IF ~name.ok THEN [ok |-> FALSE, err |-> RemoteBranch_error(name)] ELSE
    LET reference == parse_reference(name.rest) IN
    IF ~reference.ok THEN [ok |-> FALSE, err |-> RemoteBranch_error(reference)]
    ELSE [ok |-> TRUE, val |-> [name |-> name.val, reference |-> reference.val]]

-----------------------------------------------------------------------------
(* The fuzzy matcher used by Tab::update_filtered_view                     *)
(* (nucleo_matcher, Pattern::parse(..).match_list(..)): the names the      *)
(* pattern matches, best score first, equal scores in listing order.  The  *)
(* score keeps nucleo's shape: a reward per matched character, a bonus for *)
(* a match at the start of the name, a penalty per skipped character.      *)
(* Names and queries of the model are lower case and hold no white space,  *)
(* so smart case is exact comparison and the pattern is one fuzzy atom.    *)

SCORE_MATCH == 16

BONUS_BOUNDARY == 8

PENALTY_GAP == 3

Min(S) == CHOOSE x \in S : \A y \in S : x <= y

\* the places of the leftmost match of needle in haystack[start..]; a 0
\* among them when needle is no subsequence
RECURSIVE fuzzy_indices(_, _, _)
fuzzy_indices(needle, haystack, start) ==
    IF needle = <<>> THEN <<>>
    ELSE LET at == {i \in start .. Len(haystack) : haystack[i] = needle[1]} IN
         IF at = {} THEN <<0>>
         ELSE <<Min(at)>> \o fuzzy_indices(Tail(needle), haystack, Min(at) + 1)

fuzzy_matches(needle, haystack) ==
    \A i \in DOMAIN fuzzy_indices(needle, haystack, 1) :
        fuzzy_indices(needle, haystack, 1)[i] # 0

fuzzy_score(needle, haystack) ==
    LET at == fuzzy_indices(needle, haystack, 1) IN
    SCORE_MATCH * Len(needle)
      + (IF at[1] = 1 THEN 2 * BONUS_BOUNDARY ELSE 0)
      - PENALTY_GAP * ((at[Len(at)] - at[1] + 1) - Len(at))

\* s without its elements that fail Keep
RECURSIVE SelectSeqBy(_, _)
SelectSeqBy(s, keep) ==
    IF s = <<>> THEN <<>>
    ELSE (IF Head(s) \in keep THEN <<Head(s)>> ELSE <<>>) \o SelectSeqBy(Tail(s), keep)

\* stable insertion of index i into a list of indices ordered by falling score
RECURSIVE InsertByScore(_, _, _)
InsertByScore(sorted, i, score) ==
    IF sorted = <<>> THEN <<i>>
    ELSE IF score[Head(sorted)] >= score[i]
         THEN <<Head(sorted)>> \o InsertByScore(Tail(sorted), i, score)
         ELSE <<i>> \o sorted

RECURSIVE SortByScore(_, _)
SortByScore(indices, score) ==
    IF indices = <<>> THEN <<>>
    ELSE InsertByScore(SortByScore(Take(indices, Len(indices) - 1), score),
                       indices[Len(indices)], score)

\* Pattern::match_list: the matching names, ordered by score
match_list(query, names) ==
    IF query = <<>> THEN names
    ELSE LET matching == {i \in 1 .. Len(names) : fuzzy_matches(query, names[i])}
             score == [i \in matching |-> fuzzy_score(query, names[i])]
             idx == SortByScore(SelectSeqBy([i \in 1 .. Len(names) |-> i], matching), score)
         IN  [k \in 1 .. Len(idx) |-> names[idx[k]]]

-----------------------------------------------------------------------------
(* Tab<T>                                                                  *)

Tab_default ==
    [inited |-> FALSE, input |-> <<>>, view |-> BranchesView_default,
     filtered_view |-> None]

\* current_view that hands out the full view whatever is shown
current_view_full(tab) == tab.view

current_view(tab) ==
    IF tab.filtered_view # None THEN unwrap(tab.filtered_view) ELSE tab.view

\* tab with f applied to the view mut_current_view returns
with_current_view(tab, view) ==
    IF tab.filtered_view # None
    THEN [tab EXCEPT !.filtered_view = Some(view)]
    ELSE [tab EXCEPT !.view = view]

\* select_down that moves the selection of the full view whatever is shown
select_down_full_view(tab, render_area) ==
    [tab EXCEPT !.view = scroll_if_some(offset_selected_index(tab.view, 1), render_area)]

select_down(tab, render_area) ==
    with_current_view(tab,
        scroll_if_some(offset_selected_index(current_view(tab), 1), render_area))

select_up(tab, render_area) ==
    with_current_view(tab,
        scroll_if_some(offset_selected_index(current_view(tab), 0 - 1), render_area))

Names(branches) == [i \in 1 .. Len(branches) |-> branches[i].name]

\* branch_name_map[name]: the last record of that name
branch_name_map(branches, name) ==
    LET at == {i \in 1 .. Len(branches) : branches[i].name = name} IN
    branches[CHOOSE i \in at : \A j \in at : j <= i]

visible_branches(tab) ==
    LET ranked == match_list(tab.input, Names(tab.view.branches)) IN
    [k \in 1 .. Len(ranked) |-> branch_name_map(tab.view.branches, ranked[k])]

\* update_filtered_view ranking the records of the filter it replaces, not
\* those of the full view
update_filtered_view_narrowing(tab, render_area) ==
    LET narrowed == visible_branches([tab EXCEPT !.view.branches = current_view(tab).branches])
    IN
    IF tab.filtered_view # None
    THEN LET replaced == [unwrap(tab.filtered_view) EXCEPT !.branches = narrowed]
             reselected == IF replaced.selected_index >= Len(replaced.branches)
                           THEN [replaced EXCEPT !.selected_index = 0]
                           ELSE replaced
         IN  [tab EXCEPT !.filtered_view = Some(scroll_if_some(reselected, render_area))]
    ELSE [tab EXCEPT !.filtered_view =
             Some(scroll_if_some(BranchesView_new(narrowed), render_area))]

update_filtered_view(tab, render_area) ==
    IF tab.filtered_view # None
    THEN LET replaced == [unwrap(tab.filtered_view) EXCEPT
                             !.branches = visible_branches(tab)]
             reselected == IF replaced.selected_index >= Len(replaced.branches)
                           THEN [replaced EXCEPT !.selected_index = 0]
                           ELSE replaced
         IN  [tab EXCEPT !.filtered_view = Some(scroll_if_some(reselected, render_area))]
    ELSE [tab EXCEPT !.filtered_view =
             Some(scroll_if_some(BranchesView_new(visible_branches(tab)), render_area))]

push_to_input(tab, c, render_area) ==
    update_filtered_view([tab EXCEPT !.input = Append(tab.input, c)], render_area)

\* String::pop: the string without its last character, "" stays ""
string_pop(s) == IF s = <<>> THEN s ELSE Take(s, Len(s) - 1)

\* pop_from_input that recomputes the filter even for an emptied query
pop_from_input_keeps_view(tab, render_area) ==
    update_filtered_view([tab EXCEPT !.input = string_pop(tab.input)], render_area)

\* pop_from_input that starts the full view over when the input is emptied
pop_from_input_resets_selection(tab, render_area) ==
    LET popped == [tab EXCEPT !.input = string_pop(tab.input)] IN
    IF popped.input = <<>>
    THEN [popped EXCEPT !.filtered_view = None, !.view.selected_index = 0]
    ELSE update_filtered_view(popped, render_area)

pop_from_input(tab, render_area) ==
    LET popped == [tab EXCEPT !.input = string_pop(tab.input)] IN
    IF popped.input = <<>>
    THEN [popped EXCEPT !.filtered_view = None]
    ELSE update_filtered_view(popped, render_area)

-----------------------------------------------------------------------------
(* Git: the plugin state and its handlers (src/src/main.rs)                *)
(* A handler is an operator from the state it meets (and its inputs) to an *)
(* outcome: the state it leaves, the host calls it made, whether it closed *)
(* the plugin, and its return value.                                       *)

Git ==
    [cwd |-> cwd,
     branch_type |-> branch_type,
     local_branches_tab |-> local_branches_tab,
     remote_branches_tab |-> remote_branches_tab,
     error_message |-> error_message]

Git_default ==
    [cwd |-> None,
     branch_type |-> "Local",
     local_branches_tab |-> Tab_default,
     remote_branches_tab |-> Tab_default,
     error_message |-> None]

Outcome(g, cmds, ret) ==
    [git |-> g, issued |-> cmds, closed |-> FALSE, panicked |-> FALSE, ret |-> ret]

\* the handler panicked (an index out of bounds): nothing it did is kept
Panicked(g) ==
    [git |-> g, issued |-> <<>>, closed |-> FALSE, panicked |-> TRUE, ret |-> FALSE]

\* run_command / run_command_with_env_variables_and_cwd / open_command_pane:
\* the "command" entry of the context, the fixed words of the argument
\* vector, and after them the texts taken from the state
Command(context, words, texts) == [context |-> context, words |-> words, texts |-> texts]

\* BufRead::lines on the bytes of stdout: the text between line feeds, a
\* carriage return before the line feed dropped
RECURSIVE split_lines(_)
split_lines(bytes) ==
    IF bytes = <<>> THEN <<>>
    ELSE LET n == SpanNotIn(bytes, {"\n"})
             ended == n < Len(bytes)
             line == IF ended /\ n > 0 /\ bytes[n] = "\r" THEN Take(bytes, n - 1)
                     ELSE Take(bytes, n)
         IN  <<line>> \o split_lines(Drop(bytes, n + 1))

\* a line read as text is Ok unless its bytes are no UTF-8
is_utf8(line) == \A i \in 1 .. Len(line) : line[i] # InvalidByte

\* stdout.lines().map_while(Result::ok): the lines before the first one that
\* cannot be read
lines_map_while_ok(stdout) ==
    LET all == split_lines(stdout)
        bad == {i \in 1 .. Len(all) : ~is_utf8(all[i])}
    IN  IF bad = {} THEN all ELSE Take(all, Min(bad) - 1)

\* .map(|line| line.parse()).collect::<Result<Vec<_>>>(): all records, or
\* the first error
collect(parsed) ==
    LET failed == {i \in 1 .. Len(parsed) : ~parsed[i].ok} IN
    IF failed = {}
    THEN [ok |-> TRUE, val |-> [i \in 1 .. Len(parsed) |-> parsed[i].val]]
    ELSE [ok |-> FALSE, err |-> parsed[Min(failed)].err]

-----------------------------------------------------------------------------
(* The listings of the model                                               *)

\* "* ab 1a [o/ab] x"
LineAb == <<"*", " ", "a", "b", " ", "1", "a", " ", "[", "o", "/", "a", "b", "]", " ", "x">>

\* "  b 2b y"
LineB == <<" ", " ", "b", " ", "2", "b", " ", "y">>

\* "  ba 3c z"
LineBa == <<" ", " ", "b", "a", " ", "3", "c", " ", "z">>

\* "  b zz": no sha
LineNoSha == <<" ", " ", "b", " ", "z", "z">>

\* "  ": no name
LineNoName == <<" ", " ">>

\* "  b" and a byte that is no UTF-8
LineNotUtf8 == <<" ", " ", "b", InvalidByte>>

\* "o/ab 1a x"
RemoteLineAb == <<"o", "/", "a", "b", " ", "1", "a", " ", "x">>

\* "o/b -> o/ab"
RemoteLineB == <<"o", "/", "b", " ", "-", ">", " ", "o", "/", "a", "b">>

\* "o/b zz": neither a sha nor a pointer
RemoteLineNoRef == <<"o", "/", "b", " ", "z", "z">>

\* the bytes of a listing: every line ended by a line feed
RECURSIVE Stdout(_)
Stdout(listing) ==
    IF listing = <<>> THEN <<>>
    ELSE Head(listing) \o <<"\n">> \o Stdout(Tail(listing))

LocalListings ==
    {<<>>,
     <<LineB>>,
     <<LineBa, LineB, LineAb>>,
     <<LineB, LineNoSha, LineNoName>>,
     <<LineB, LineNotUtf8, LineNoSha>>}

RemoteListings ==
    {<<>>,
     <<RemoteLineAb>>,
     <<RemoteLineAb, RemoteLineB>>,
     <<RemoteLineAb, RemoteLineNoRef>>,
     <<RemoteLineAb, LineNotUtf8, RemoteLineNoRef>>}

LocalStdouts == {Stdout(l) : l \in LocalListings}

RemoteStdouts == {Stdout(l) : l \in RemoteListings}

\* the local listing read from stdout: lines().map_while(Result::ok)
\* .map(|line| line.parse()).collect()
local_branches_of(stdout) ==
    LET lines == lines_map_while_ok(stdout) IN
    collect([i \in 1 .. Len(lines) |-> LocalBranch_from_str(lines[i])])

remote_branches_of(stdout) ==
    LET lines == lines_map_while_ok(stdout) IN
    collect([i \in 1 .. Len(lines) |-> RemoteBranch_from_str(lines[i])])

\* the same, kept per listing of the model
LocalParsed == [stdout \in LocalStdouts |-> local_branches_of(stdout)]

RemoteParsed == [stdout \in RemoteStdouts |-> remote_branches_of(stdout)]

-----------------------------------------------------------------------------
(* successful_command_update                                               *)

\* branches.iter().position(|branch| branch.current).unwrap_or(0)
position_current(branches) ==
    LET at == {i \in 1 .. Len(branches) : branches[i].current} IN
    IF at = {} THEN 0 ELSE Min(at) - 1

\* view.table_state.select_index(index)
select_index(view, index) == [view EXCEPT !.selected_index = index]

list_local_branches ==
    Command(Some("list_local_branches"), <<"git", "branch", "-vv">>, <<>>)

list_remote_branches ==
    Command(Some("list_remote_branches"), <<"git", "branch", "-r", "-v">>, <<>>)

\* the Ok arm of the local listing without the recomputation of the filter
apply_local_branches_keeps_filter(g, branches, render_area) ==
    [g EXCEPT !.local_branches_tab.view =
                  [select_index(@, position_current(branches)) EXCEPT !.branches = branches],
              !.error_message = None]

\* the Ok arm of the local listing that leaves a showing error for a key to
\* dismiss
apply_local_branches_keeps_error(g, branches, render_area) ==
    LET selected == select_index(g.local_branches_tab.view, position_current(branches))
        replaced == [g.local_branches_tab EXCEPT
                        !.view = [selected EXCEPT !.branches = branches]]
        tab == IF replaced.input # <<>>
               THEN update_filtered_view(replaced, render_area)
               ELSE replaced
    IN  [g EXCEPT !.local_branches_tab = tab]

\* successful_command_update, Some("list_local_branches"), Ok(branches)
apply_local_branches(g, branches, render_area) ==
    LET selected == select_index(g.local_branches_tab.view, position_current(branches))
        replaced == [g.local_branches_tab EXCEPT
                        !.view = [selected EXCEPT !.branches = branches]]
        tab == IF replaced.input # <<>>
               THEN update_filtered_view(replaced, render_area)
               ELSE replaced
    IN  [g EXCEPT !.local_branches_tab = tab, !.error_message = None]

\* the Ok arm of the remote listing that keeps the records it has when a
\* second listing arrives
apply_remote_branches_first_wins(g, branches, render_area) ==
    IF g.remote_branches_tab.view.branches # <<>>
    THEN [g EXCEPT !.error_message = None]
    ELSE LET replaced == [g.remote_branches_tab EXCEPT !.view.branches = branches]
             tab == IF replaced.input # <<>>
                    THEN update_filtered_view(replaced, render_area)
                    ELSE replaced
         IN  [g EXCEPT !.remote_branches_tab = tab, !.error_message = None]

\* successful_command_update, Some("list_remote_branches"), Ok(branches)
apply_remote_branches(g, branches, render_area) ==
    LET replaced == [g.remote_branches_tab EXCEPT !.view.branches = branches]
        tab == IF replaced.input # <<>>
               THEN update_filtered_view(replaced, render_area)
               ELSE replaced
    IN  [g EXCEPT !.remote_branches_tab = tab, !.error_message = None]

\* Err(err) => self.error_message = Some(err.to_string())
reject_branches(g, err) == [g EXCEPT !.error_message = Some(err)]

\* successful_command_update whose re-listing arm leaves out "delete"
successful_command_update_forgets_delete(g, context, stdout, render_area) ==
    CASE context = Some("list_local_branches") ->
            LET branches == LocalParsed[stdout] IN
            IF branches.ok
            THEN Outcome(apply_local_branches(g, branches.val, render_area), <<>>, TRUE)
            ELSE Outcome(reject_branches(g, branches.err), <<>>, TRUE)
      [] context = Some("list_remote_branches") ->
            LET branches == RemoteParsed[stdout] IN
            IF branches.ok
            THEN Outcome(apply_remote_branches(g, branches.val, render_area), <<>>, TRUE)
            ELSE Outcome(reject_branches(g, branches.err), <<>>, TRUE)
      [] context \in {Some("switch"), Some("create"), Some("fetch")} ->
            Outcome(g, <<list_local_branches>>, TRUE)
      [] context = Some("track_remote") ->
            Outcome([g EXCEPT !.branch_type = "Local"], <<list_local_branches>>, TRUE)
      [] OTHER -> Outcome(g, <<>>, FALSE)

successful_command_update(g, context, stdout, render_area) ==
    CASE context = Some("list_local_branches") ->
            LET branches == LocalParsed[stdout] IN
            IF branches.ok
            THEN Outcome(apply_local_branches(g, branches.val, render_area), <<>>, TRUE)
            ELSE Outcome(reject_branches(g, branches.err), <<>>, TRUE)
      [] context = Some("list_remote_branches") ->
            LET branches == RemoteParsed[stdout] IN
            IF branches.ok
            THEN Outcome(apply_remote_branches(g, branches.val, render_area), <<>>, TRUE)
            ELSE Outcome(reject_branches(g, branches.err), <<>>, TRUE)
      [] context \in {Some("switch"), Some("create"), Some("delete"), Some("fetch")} ->
            Outcome(g, <<list_local_branches>>, TRUE)
      [] context = Some("track_remote") ->
            Outcome([g EXCEPT !.branch_type = "Local"], <<list_local_branches>>, TRUE)
      [] OTHER -> Outcome(g, <<>>, FALSE)

-----------------------------------------------------------------------------
(* Commands issued for a record                                           *)

delete_branch(branch_name, force_delete) ==
    Command(Some("delete"),
            <<"git", "branch", IF force_delete THEN "-D" ELSE "-d">>, <<branch_name>>)

switch_to_previous_branch == Command(Some("switch"), <<"git", "switch", "-">>, <<>>)

switch_to_branch(branch) == Command(Some("switch"), <<"git", "switch">>, <<branch.name>>)

track_remote_branch(remote_branch) ==
    Command(Some("track_remote"), <<"git", "checkout", "--track">>, <<remote_branch.name>>)

\* open_command_pane / open_command_pane_floating: no context, no result event
open_log_pane(branch_name) == Command(None, <<"git", "log">>, <<branch_name>>)

create_branch(tab) == Command(Some("create"), <<"git", "checkout", "-b">>, <<tab.input>>)

\* str::split_once(ch): None, or Some(<<before, after>>)
split_once(s, ch) ==
    LET at == {i \in 1 .. Len(s) : s[i] = ch} IN
    IF at = {} THEN None
    ELSE Some(<<Take(s, Min(at) - 1), Drop(s, Min(at))>>)

\* LocalBranch.upstream_info, read by Git::fetch: the bracket text, its
\* name ending at the first ": " when a relationship follows
upstream_info(branch) ==
    IF branch.upstream_branch = None THEN None
    ELSE LET text == unwrap(branch.upstream_branch)
             at == {i \in 1 .. (Len(text) - 1) : text[i] = ":" /\ text[i + 1] = " "}
         IN  IF at = {} THEN Some([name |-> text, relationship |-> None])
             ELSE Some([name |-> Take(text, Min(at) - 1),
                        relationship |-> Some(Drop(text, Min(at) + 1))])

\* Git::fetch that fetches the branch by name when it tracks nothing
fetch_untracked(branch) ==
    [ok |-> TRUE, val |-> Command(Some("fetch"), <<"git", "fetch">>, <<branch.name>>)]

\* Git::fetch: Ok(the command issued) or Err(message)
fetch(branch) ==
    IF upstream_info(branch) # None
    THEN LET halves == split_once(unwrap(upstream_info(branch)).name, "/") IN
         IF halves = None THEN [ok |-> FALSE, err |-> Message("Invalid upstream", <<>>, "")]
         ELSE LET remote == unwrap(halves)[1]
                  remote_ref == unwrap(halves)[2]
                  prefix == IF split_once(remote_ref, ":") = None THEN remote_ref
                            ELSE unwrap(split_once(remote_ref, ":"))[1]
                  refspec == prefix \o <<":">> \o branch.name
              IN  [ok |-> TRUE,
                   val |-> Command(Some("fetch"), <<"git", "fetch">>, <<remote, refspec>>)]
    ELSE [ok |-> FALSE,
          err |-> Message("Local branch does not track any remote branch", <<>>, "")]

-----------------------------------------------------------------------------
(* Key events                                                              *)

Key(bare_key, char, ctrl) == [bare_key |-> bare_key, char |-> char, ctrl |-> ctrl]

is_ctrl_char(key, c) == key.bare_key = "Char" /\ key.char = c /\ key.ctrl

\* the keys whose arm calls current_view().selected_branch()
reads_selected_local(key) ==
    \/ key.bare_key = "Enter"
    \/ key.bare_key = "Char" /\ key.ctrl /\ key.char \in {"d", "x", "l", "f"}

reads_selected_remote(key) ==
    \/ key.bare_key = "Enter"
    \/ key.bare_key = "Char" /\ key.ctrl /\ key.char = "l"

handle_local_tab_key_input(g, key, render_area) ==
    LET tab == g.local_branches_tab
        selected == selected_branch(current_view(tab))
    IN
    CASE key.bare_key = "Tab" ->
            Outcome([g EXCEPT !.branch_type = "Remote"], <<>>, TRUE)
      [] reads_selected_local(key) /\ selected = Panic -> Panicked(g)
      [] key.bare_key = "Down" ->
            Outcome([g EXCEPT !.local_branches_tab = select_down(tab, render_area)],
                    <<>>, TRUE)
      [] key.bare_key = "Up" ->
            Outcome([g EXCEPT !.local_branches_tab = select_up(tab, render_area)],
                    <<>>, TRUE)
      [] key.bare_key = "Enter" /\ selected # Panic ->
            IF selected # None
            THEN Outcome(g, <<switch_to_branch(unwrap(selected))>>, TRUE)
            ELSE Outcome(g, <<>>, FALSE)
      [] is_ctrl_char(key, "c") -> Outcome(g, <<create_branch(tab)>>, TRUE)
      [] is_ctrl_char(key, "r") -> Outcome(g, <<list_local_branches>>, TRUE)
      [] is_ctrl_char(key, "d") /\ selected # Panic ->
            IF selected # None
            THEN Outcome(g, <<delete_branch(unwrap(selected).name, FALSE)>>, TRUE)
            ELSE Outcome(g, <<>>, FALSE)
      [] is_ctrl_char(key, "x") /\ selected # Panic ->
            IF selected # None
            THEN Outcome(g, <<delete_branch(unwrap(selected).name, TRUE)>>, TRUE)
            ELSE Outcome(g, <<>>, FALSE)
      [] is_ctrl_char(key, "l") /\ selected # Panic ->
            IF selected # None
            THEN Outcome(g, <<open_log_pane(unwrap(selected).name)>>, TRUE)
            ELSE Outcome(g, <<>>, FALSE)
      [] is_ctrl_char(key, "p") -> Outcome(g, <<switch_to_previous_branch>>, TRUE)
      [] is_ctrl_char(key, "f") /\ selected # Panic ->
            IF selected # None
            THEN LET fetched == fetch(unwrap(selected)) IN
                 IF fetched.ok THEN Outcome(g, <<fetched.val>>, TRUE)
                 ELSE Outcome([g EXCEPT !.error_message = Some(fetched.err)], <<>>, TRUE)
            ELSE Outcome(g, <<>>, FALSE)
      [] key.bare_key = "Char" /\ ~(key.ctrl /\ key.char \in {"c", "r", "d", "x", "l", "p", "f"}) ->
            Outcome([g EXCEPT !.local_branches_tab = push_to_input(tab, key.char, render_area)],
                    <<>>, TRUE)
      [] key.bare_key = "Backspace" ->
            Outcome([g EXCEPT !.local_branches_tab = pop_from_input(tab, render_area)],
                    <<>>, TRUE)
      [] OTHER -> Outcome(g, <<>>, FALSE)

\* handle_remote_tab_key_input whose character arm types into the local tab
handle_remote_tab_key_input_typing_local(g, key, render_area) ==
    LET tab == g.remote_branches_tab
        selected == selected_branch(current_view(tab))
    IN
    CASE key.bare_key = "Tab" ->
            Outcome([g EXCEPT !.branch_type = "Local"], <<>>, TRUE)
      [] reads_selected_remote(key) /\ selected = Panic -> Panicked(g)
      [] key.bare_key = "Down" ->
            Outcome([g EXCEPT !.remote_branches_tab = select_down(tab, render_area)],
                    <<>>, TRUE)
      [] key.bare_key = "Up" ->
            Outcome([g EXCEPT !.remote_branches_tab = select_up(tab, render_area)],
                    <<>>, TRUE)
      [] key.bare_key = "Enter" /\ selected # Panic ->
            IF selected # None
            THEN Outcome(g, <<track_remote_branch(unwrap(selected))>>, TRUE)
            ELSE Outcome(g, <<>>, FALSE)
      [] is_ctrl_char(key, "r") -> Outcome(g, <<list_remote_branches>>, TRUE)
      [] is_ctrl_char(key, "l") /\ selected # Panic ->
            IF selected # None
            THEN Outcome(g, <<open_log_pane(unwrap(selected).name)>>, TRUE)
            ELSE Outcome(g, <<>>, FALSE)
      [] key.bare_key = "Char" /\ ~(key.ctrl /\ key.char \in {"r", "l"}) ->
            Outcome([g EXCEPT !.local_branches_tab =
                                  push_to_input(g.local_branches_tab, key.char, render_area)],
                    <<>>, TRUE)
      [] key.bare_key = "Backspace" ->
            Outcome([g EXCEPT !.remote_branches_tab = pop_from_input(tab, render_area)],
                    <<>>, TRUE)
      [] OTHER -> Outcome(g, <<>>, FALSE)

handle_remote_tab_key_input(g, key, render_area) ==
    LET tab == g.remote_branches_tab
        selected == selected_branch(current_view(tab))
    IN
    CASE key.bare_key = "Tab" ->
            Outcome([g EXCEPT !.branch_type = "Local"], <<>>, TRUE)
      [] reads_selected_remote(key) /\ selected = Panic -> Panicked(g)
      [] key.bare_key = "Down" ->
            Outcome([g EXCEPT !.remote_branches_tab = select_down(tab, render_area)],
                    <<>>, TRUE)
      [] key.bare_key = "Up" ->
            Outcome([g EXCEPT !.remote_branches_tab = select_up(tab, render_area)],
                    <<>>, TRUE)
      [] key.bare_key = "Enter" /\ selected # Panic ->
            IF selected # None
            THEN Outcome(g, <<track_remote_branch(unwrap(selected))>>, TRUE)
            ELSE Outcome(g, <<>>, FALSE)
      [] is_ctrl_char(key, "r") -> Outcome(g, <<list_remote_branches>>, TRUE)
      [] is_ctrl_char(key, "l") /\ selected # Panic ->
            IF selected # None
            THEN Outcome(g, <<open_log_pane(unwrap(selected).name)>>, TRUE)
            ELSE Outcome(g, <<>>, FALSE)
      [] key.bare_key = "Char" /\ ~(key.ctrl /\ key.char \in {"r", "l"}) ->
            Outcome([g EXCEPT !.remote_branches_tab = push_to_input(tab, key.char, render_area)],
                    <<>>, TRUE)
      [] key.bare_key = "Backspace" ->
            Outcome([g EXCEPT !.remote_branches_tab = pop_from_input(tab, render_area)],
                    <<>>, TRUE)
      [] OTHER -> Outcome(g, <<>>, FALSE)

\* handle_key_input without the gate on a showing error
handle_key_input_no_gate(g, key, render_area) ==
    IF key.bare_key = "Esc"
    THEN [Outcome(g, <<>>, TRUE) EXCEPT !.closed = TRUE]
    ELSE IF g.branch_type = "Local"
         THEN handle_local_tab_key_input(g, key, render_area)
         ELSE handle_remote_tab_key_input(g, key, render_area)

handle_key_input(g, key, render_area) ==
    IF g.error_message # None
    THEN Outcome([g EXCEPT !.error_message = None], <<>>, TRUE)
    ELSE IF key.bare_key = "Esc"
    THEN [Outcome(g, <<>>, TRUE) EXCEPT !.closed = TRUE]
    ELSE IF g.branch_type = "Local"
         THEN handle_local_tab_key_input(g, key, render_area)
         ELSE handle_remote_tab_key_input(g, key, render_area)

\* String::from_utf8_lossy(&stderr).to_string(): the text of stderr, a byte
\* that is no UTF-8 replaced
from_utf8_lossy(bytes) ==
    Message("{}", [i \in 1 .. Len(bytes) |->
                      IF bytes[i] = InvalidByte THEN "<U+FFFD>" ELSE bytes[i]], "")

\* Git::update that lists the local branches again when a command failed
update_run_command_result_relisting(g, exit_code, stdout, stderr, context, render_area) ==
    IF exit_code = Some(0)
    THEN successful_command_update(g, context, stdout, render_area)
    ELSE IF exit_code # None
    THEN Outcome([g EXCEPT !.error_message = Some(from_utf8_lossy(stderr))],
                 <<list_local_branches>>, TRUE)
    ELSE Outcome(g, <<>>, FALSE)

\* Git::update, Event::RunCommandResult(exit_code, stdout, stderr, context)
update_run_command_result(g, exit_code, stdout, stderr, context, render_area) ==
    IF exit_code = Some(0)
    THEN successful_command_update(g, context, stdout, render_area)
    ELSE IF exit_code # None
    THEN Outcome([g EXCEPT !.error_message = Some(from_utf8_lossy(stderr))], <<>>, TRUE)
    ELSE Outcome(g, <<>>, FALSE)

\* ZellijPlugin::pipe
pipe(g, name, payload) ==
    IF name = "cwd" /\ payload # None
    THEN Outcome([g EXCEPT !.cwd = Some(unwrap(payload))],
                 <<list_local_branches, list_remote_branches>>, TRUE)
    ELSE Outcome(g, <<>>, FALSE)

\* ZellijPlugin::render: the first render of a tab asks for its listing;
\* later renders draw and change nothing
render(g) ==
    IF g.branch_type = "Local" /\ ~g.local_branches_tab.inited
    THEN Outcome([g EXCEPT !.local_branches_tab.inited = TRUE],
                 <<list_local_branches>>, TRUE)
    ELSE IF g.branch_type = "Remote" /\ ~g.remote_branches_tab.inited
    THEN Outcome([g EXCEPT !.remote_branches_tab.inited = TRUE],
                 <<list_remote_branches>>, TRUE)
    ELSE Outcome(g, <<>>, TRUE)

\* ZellijPlugin::load: cwd = Some(plugin_ids.initial_cwd)
load(g, initial_cwd) == [g EXCEPT !.cwd = Some(initial_cwd)]

-----------------------------------------------------------------------------
(* The inputs of the model: listings, keys, results                        *)

Stderr == <<"f", "a", "t", "a", "l">>

InitialCwd == <<"/", "r">>

\* the characters a query is typed from
QueryChars == {"a"}

Keys ==
    {Key(k, "", FALSE) : k \in {"Esc", "Tab", "Down", "Up", "Enter", "Backspace", "Left"}}
      \cup {Key("Char", c, FALSE) : c \in QueryChars}
      \cup {Key("Char", c, TRUE) : c \in {"c", "r", "d", "x", "l", "p", "f"}}

CommandTags ==
    {"list_local_branches", "list_remote_branches", "switch", "create", "delete",
     "fetch", "track_remote"}

\* the context of a result: a "command" entry the plugin set, one it never
\* sets, or none
Contexts == {Some(t) : t \in CommandTags} \cup {Some("other"), None}

ExitCodes == {Some(0), Some(1), None}

\* the output a result can carry: a listing for a listing that succeeded
StdoutsOf(exit_code, context) ==
    IF exit_code = Some(0) /\ context = Some("list_local_branches") THEN LocalStdouts
    ELSE IF exit_code = Some(0) /\ context = Some("list_remote_branches") THEN RemoteStdouts
    ELSE {<<>>}

\* the render area matters to the keys and results that reach a tab
\* operation taking it; the others are handed none
AreasOfKey(key) ==
    IF key.bare_key \in {"Down", "Up", "Char", "Backspace"} THEN TabRenderAreas ELSE {None}

AreasOfResult(exit_code, context) ==
    IF exit_code = Some(0)
       /\ context \in {Some("list_local_branches"), Some("list_remote_branches")}
    THEN TabRenderAreas ELSE {None}

\* the bound on the queries: at most MaxInput characters, all of QueryChars
InputBounded(tab) ==
    /\ Len(tab.input) <= MaxInput
    /\ \A i \in 1 .. Len(tab.input) : tab.input[i] \in QueryChars

GitBounded(g) == InputBounded(g.local_branches_tab) /\ InputBounded(g.remote_branches_tab)

-----------------------------------------------------------------------------
(* Spec: the plugin under key, result, pipe and render events              *)

Running == ~closed /\ ~panicked

\* the state an event's handler leaves
Leave(outcome, event) ==
    /\ GitBounded(outcome.git)
    /\ cwd' = IF outcome.panicked THEN cwd ELSE outcome.git.cwd
    /\ branch_type' = IF outcome.panicked THEN branch_type ELSE outcome.git.branch_type
    /\ local_branches_tab' =
           IF outcome.panicked THEN local_branches_tab ELSE outcome.git.local_branches_tab
    /\ remote_branches_tab' =
           IF outcome.panicked THEN remote_branches_tab ELSE outcome.git.remote_branches_tab
    /\ error_message' = IF outcome.panicked THEN error_message ELSE outcome.git.error_message
    /\ closed' = outcome.closed
    /\ panicked' = outcome.panicked
    /\ issued' = outcome.issued
    /\ last_event' = event
    /\ UNCHANGED harness_vars
    /\ UNCHANGED parse_vars
    /\ UNCHANGED tab_vars

\* the key reaches an arm that reads the selected record of the active tab
reads_selected(g, key) ==
    /\ g.error_message = None
    /\ IF g.branch_type = "Local" THEN reads_selected_local(key)
       ELSE reads_selected_remote(key)

KeyPressed(key, render_area) ==
    /\ Running
    /\ Leave(handle_key_input(Git, key, render_area),
             [kind |-> "key", dismissed |-> error_message # None,
              selecting |-> reads_selected(Git, key)])

KeyEvent == \E key \in Keys : \E render_area \in AreasOfKey(key) : KeyPressed(key, render_area)

RunCommandResult(exit_code, stdout, stderr, context, render_area) ==
    /\ Running
    /\ Leave(update_run_command_result(Git, exit_code, stdout, stderr, context, render_area),
             [kind |-> "result", exit_code |-> exit_code,
              met_error |-> error_message # None])

RunCommandResultEvent ==
    \E exit_code \in ExitCodes, context \in Contexts :
        \E stdout \in StdoutsOf(exit_code, context),
           render_area \in AreasOfResult(exit_code, context) :
            RunCommandResult(exit_code, stdout, Stderr, context, render_area)

PipeEvent ==
    \E name \in {"cwd", "other"}, payload \in {None, Some(InitialCwd)} :
        /\ Running
        /\ Leave(pipe(Git, name, payload), [kind |-> "pipe"])

RenderEvent ==
    /\ Running
    /\ Leave(render(Git), [kind |-> "render"])

Init ==
    /\ cwd = load(Git_default, InitialCwd).cwd
    /\ branch_type = Git_default.branch_type
    /\ local_branches_tab = Git_default.local_branches_tab
    /\ remote_branches_tab = Git_default.remote_branches_tab
    /\ error_message = Git_default.error_message
    /\ closed = FALSE
    /\ panicked = FALSE
    /\ issued = <<>>
    /\ last_event = [kind |-> "load"]
    /\ hview = BranchesView_default
    /\ hop = [op |-> "init", arg |-> None, before |-> BranchesView_default]
    /\ line_fields = <<>>
    /\ line_parsed = [op |-> "init"]
    /\ htab = Tab_default
    /\ htop = [op |-> "init", before |-> Tab_default]
    /\ horigin = Tab_default

Next == KeyEvent \/ RunCommandResultEvent \/ PipeEvent \/ RenderEvent

Spec == Init /\ [][Next]_vars

-----------------------------------------------------------------------------
(* SpecView: one BranchesView under arbitrary offset_selected_index and    *)
(* scroll_selected_to_view calls                                           *)

Items(n) == [i \in 1 .. n |-> i]

HViews ==
    {[branches |-> Items(n), selected_index |-> s, scroll_offset |-> o] :
        n \in 0 .. MaxLen, s \in 0 .. MaxLen, o \in 0 .. MaxLen}

InitView ==
    /\ hview \in {v \in HViews :
                    v.selected_index <= saturating_sub(Len(v.branches), 1)}
    /\ hop = [op |-> "init", arg |-> None, before |-> hview]
    /\ line_fields = <<>>
    /\ line_parsed = [op |-> "init"]
    /\ htab = Tab_default
    /\ htop = [op |-> "init", before |-> Tab_default]
    /\ horigin = Tab_default
    /\ cwd = None
    /\ branch_type = Git_default.branch_type
    /\ local_branches_tab = Git_default.local_branches_tab
    /\ remote_branches_tab = Git_default.remote_branches_tab
    /\ error_message = Git_default.error_message
    /\ closed = FALSE
    /\ panicked = FALSE
    /\ issued = <<>>
    /\ last_event = [kind |-> "load"]

HMove(offset) ==
    /\ hview' = offset_selected_index(hview, offset)
    /\ hop' = [op |-> "offset_selected_index", arg |-> offset, before |-> hview]
    /\ UNCHANGED plugin_vars
    /\ UNCHANGED parse_vars
    /\ UNCHANGED tab_vars

HScroll(render_area) ==
    /\ hview' = scroll_selected_to_view(hview, render_area)
    /\ hop' = [op |-> "scroll_selected_to_view", arg |-> render_area, before |-> hview]
    /\ UNCHANGED plugin_vars
    /\ UNCHANGED parse_vars
    /\ UNCHANGED tab_vars

HMoveAny == \E offset \in isize : HMove(offset)

HScrollAny == \E render_area \in RenderAreas : HScroll(render_area)

NextView == HMoveAny \/ HScrollAny

SpecView == InitView /\ [][NextView]_vars

-----------------------------------------------------------------------------
(* SpecParse: LocalBranch::from_str and RemoteBranch::from_str on lines    *)
(* put together from field tokens, well formed and not                     *)

\* name tokens: "b", "ab", "(no b)", "(no"
NameTokens ==
    {<<"b">>, <<"a", "b">>, <<"(", "n", "o", " ", "b", ")">>, <<"(", "n", "o">>}

\* sha tokens: "2b", "2bzz", "zz"
ShaTokens == {<<"2", "b">>, <<"2", "b", "z", "z">>, <<"z", "z">>}

\* upstream tokens: none, "[o/b]", "[o/b", "[]"
UpstreamTokens ==
    {<<>>, <<"[", "o", "/", "b", "]">>, <<"[", "o", "/", "b">>, <<"[", "]">>}

\* messages: "", "y", "y  z", "[x] y"
MessageTokens ==
    {<<>>, <<"y">>, <<"y", " ", " ", "z">>, <<"[", "x", "]", " ", "y">>}

\* the white space between two fields
Gaps == {<<" ">>, <<" ", "\t">>}

\* remote names: "o/b", "o/H"
RemoteNameTokens == {<<"o", "/", "b">>, <<"o", "/", "H">>}

\* arrows: "-> ", "->"
ArrowTokens == {<<"-", ">", " ">>, <<"-", ">">>}

\* pointer targets: "o/m", "ab"
TargetTokens == {<<"o", "/", "m">>, <<"a", "b">>}

LocalFields ==
    [form : {"local"}, current : BOOLEAN, name : NameTokens, gap : Gaps,
     sha : ShaTokens, upstream : UpstreamTokens, message : MessageTokens]

RemoteCommitFields ==
    [form : {"commit"}, name : RemoteNameTokens, gap : Gaps, sha : ShaTokens,
     message : MessageTokens]

RemotePointerFields ==
    [form : {"pointer"}, name : RemoteNameTokens, gap : Gaps, arrow : ArrowTokens,
     target : TargetTokens]

\* a line of `git branch -vv`: "* name sha [upstream] message"
LocalLine(f) ==
    (IF f.current THEN <<"*", " ">> ELSE <<" ", " ">>)
        \o f.name \o f.gap \o f.sha
        \o (IF f.upstream = <<>> THEN <<>> ELSE f.gap \o f.upstream)
        \o (IF f.message = <<>> THEN <<>> ELSE f.gap \o f.message)

\* what follows the name in a line of `git branch -r -v`
RemoteReferenceText(f) ==
    IF f.form = "commit"
    THEN f.sha \o (IF f.message = <<>> THEN <<>> ELSE f.gap \o f.message)
    ELSE f.arrow \o f.target

\* a line of `git branch -r -v`: "  name sha message" or "  name -> target"
RemoteLine(f) == <<" ", " ">> \o f.name \o f.gap \o RemoteReferenceText(f)

InitParse ==
    /\ line_fields \in LocalFields \cup RemoteCommitFields \cup RemotePointerFields
    /\ line_parsed = [op |-> "init"]
    /\ hview = BranchesView_default
    /\ hop = [op |-> "init", arg |-> None, before |-> BranchesView_default]
    /\ htab = Tab_default
    /\ htop = [op |-> "init", before |-> Tab_default]
    /\ horigin = Tab_default
    /\ cwd = None
    /\ branch_type = Git_default.branch_type
    /\ local_branches_tab = Git_default.local_branches_tab
    /\ remote_branches_tab = Git_default.remote_branches_tab
    /\ error_message = Git_default.error_message
    /\ closed = FALSE
    /\ panicked = FALSE
    /\ issued = <<>>
    /\ last_event = [kind |-> "load"]

ParseLocalLine ==
    /\ line_fields.form = "local"
    /\ line_parsed' = [op |-> "local",
                       result |-> LocalBranch_from_str(LocalLine(line_fields))]
    /\ UNCHANGED <<line_fields, hview, hop>>
    /\ UNCHANGED plugin_vars
    /\ UNCHANGED tab_vars

ParseRemoteLine ==
    /\ line_fields.form \in {"commit", "pointer"}
    /\ line_parsed' = [op |-> "remote",
                       result |-> RemoteBranch_from_str(RemoteLine(line_fields))]
    /\ UNCHANGED <<line_fields, hview, hop>>
    /\ UNCHANGED plugin_vars
    /\ UNCHANGED tab_vars

NextParse == ParseLocalLine \/ ParseRemoteLine

SpecParse == InitParse /\ [][NextParse]_vars

-----------------------------------------------------------------------------
(* SpecTab: one Tab<LocalBranch> with its records listed, under select_up, *)
(* select_down, push_to_input and pop_from_input                           *)

\* the longest query typed
MaxTabInput == 2

TabQueryChars == {"a", "b"}

\* the records of "  ba 3c z", "  b 2b y", "* ab 1a [o/ab] x"
TabRecords == LocalParsed[Stdout(<<LineBa, LineB, LineAb>>)].val

\* a tab after its listing arrived and the selection was moved, nothing typed
HTabs ==
    {[Tab_default EXCEPT !.inited = TRUE,
                         !.view = [branches |-> records, selected_index |-> s,
                                   scroll_offset |-> 0]] :
        records \in {<<>>, TabRecords}, s \in 0 .. (Len(TabRecords) - 1)}

\* no render area, one with room for two records, the one of Spec
HTabRenderAreas ==
    TabRenderAreas \cup {Some(RenderArea_new(Width, MaxHeight - 2))}

InitTab ==
    /\ htab \in {t \in HTabs :
                   t.view.selected_index <= saturating_sub(Len(t.view.branches), 1)}
    /\ htop = [op |-> "init", before |-> htab]
    /\ horigin = htab
    /\ hview = BranchesView_default
    /\ hop = [op |-> "init", arg |-> None, before |-> BranchesView_default]
    /\ line_fields = <<>>
    /\ line_parsed = [op |-> "init"]
    /\ cwd = None
    /\ branch_type = Git_default.branch_type
    /\ local_branches_tab = Git_default.local_branches_tab
    /\ remote_branches_tab = Git_default.remote_branches_tab
    /\ error_message = Git_default.error_message
    /\ closed = FALSE
    /\ panicked = FALSE
    /\ issued = <<>>
    /\ last_event = [kind |-> "load"]

\* the tab an operation leaves; horigin follows the tab while nothing is typed
TabStep(op, after) ==
    /\ htab' = after
    /\ htop' = [op |-> op, before |-> htab]
    /\ horigin' = IF htab.input = <<>> /\ after.input = <<>> THEN after ELSE horigin
    /\ UNCHANGED plugin_vars
    /\ UNCHANGED harness_vars
    /\ UNCHANGED parse_vars

TSelectDown ==
    \E render_area \in HTabRenderAreas :
        TabStep("select_down", select_down(htab, render_area))

TSelectUp ==
    \E render_area \in HTabRenderAreas :
        TabStep("select_up", select_up(htab, render_area))

TPushToInput ==
    \E c \in TabQueryChars, render_area \in HTabRenderAreas :
        /\ Len(htab.input) < MaxTabInput
        /\ TabStep("push_to_input", push_to_input(htab, c, render_area))

TPopFromInput ==
    \E render_area \in HTabRenderAreas :
        TabStep("pop_from_input", pop_from_input(htab, render_area))

NextTab == TSelectDown \/ TSelectUp \/ TPushToInput \/ TPopFromInput

SpecTab == InitTab /\ [][NextTab]_vars

-----------------------------------------------------------------------------
(* Properties                                                              *)

Tabs == {local_branches_tab, remote_branches_tab}

\* the full view of a tab and, when present, its filtered view
ViewsOf(tab) ==
    {tab.view} \cup (IF tab.filtered_view = None THEN {} ELSE {unwrap(tab.filtered_view)})

SelectionInRange(view) ==
    IF view.branches # <<>>
    THEN 0 <= view.selected_index /\ view.selected_index < Len(view.branches)
    ELSE view.selected_index = 0

Clamp(x, lo, hi) == IF x < lo THEN lo ELSE IF x > hi THEN hi ELSE x

NameSet(branches) == {branches[i].name : i \in 1 .. Len(branches)}

\* C1: in every reachable state every view of both tabs (the full view and,
\* when present, the filtered view) has 0 <= selected_index < len(records)
\* when it has records and selected_index = 0 when it has none.
C1_SelectionInRange ==
    \A tab \in Tabs : \A view \in ViewsOf(tab) : SelectionInRange(view)

\* C2: offset_selected_index(delta) on a view whose selection is in range
\* sets selected_index to selected_index + delta clamped into [0, len - 1],
\* to 0 on an empty list; it changes nothing else, and nothing for delta = 0.
C2_MoveSelectionClamps ==
    (hop.op = "offset_selected_index" /\ SelectionInRange(hop.before)) =>
        /\ hview.selected_index =
               IF hop.before.branches = <<>> THEN 0
               ELSE Clamp(hop.before.selected_index + hop.arg,
                          0, Len(hop.before.branches) - 1)
        /\ hview.branches = hop.before.branches
        /\ hview.scroll_offset = hop.before.scroll_offset
        /\ (hop.arg = 0 => hview = hop.before)

\* a move past the last record of a list of two or more stopped at the last
C2_SaturatedAtLast ==
    /\ hop.op = "offset_selected_index"
    /\ Len(hop.before.branches) >= 2
    /\ hop.before.selected_index + hop.arg > Len(hop.before.branches)
    /\ hview.selected_index = Len(hop.before.branches) - 1

\* C3: after scroll_selected_to_view for a render area, scroll_offset <=
\* selected_index <= scroll_offset + the area's visible_branch_count.
C3_ScrollWindow ==
    hop.op = "scroll_selected_to_view" =>
        /\ hview.scroll_offset <= hview.selected_index
        /\ hview.selected_index <= hview.scroll_offset + visible_branch_count(hop.arg)

\* C4: in every reachable state a tab's filtered_view is None if and only
\* if its query is empty.
C4_FilteredIffQuery ==
    \A tab \in Tabs : (tab.filtered_view = None) <=> (tab.input = <<>>)

\* a listing arrived while a query was typed: records and a filter over them
C4_RefreshedWithQuery ==
    /\ last_event.kind = "result"
    /\ remote_branches_tab.input # <<>>
    /\ remote_branches_tab.filtered_view # None
    /\ remote_branches_tab.view.branches # <<>>

\* C5: whenever a filtered view is present, the names of its records all
\* are names of records of the tab's full view.
C5_FilteredNamesWithinFull ==
    \A tab \in Tabs :
        tab.filtered_view # None =>
            NameSet(unwrap(tab.filtered_view).branches) \subseteq NameSet(tab.view.branches)

\* a listing replaced the local records under a query that keeps some of
\* them and drops others
C5_RefreshedProperSubset ==
    /\ last_event.kind = "result"
    /\ last_event.exit_code = Some(0)
    /\ local_branches_tab.filtered_view # None
    /\ unwrap(local_branches_tab.filtered_view).branches # <<>>
    /\ Len(unwrap(local_branches_tab.filtered_view).branches)
           < Len(local_branches_tab.view.branches)

C7_RefreshSelectsCurrent ==
    [][\A render_area \in TabRenderAreas :
          /\ \A stdout \in LocalStdouts :
                (/\ LocalParsed[stdout].ok
                 /\ RunCommandResult(Some(0), stdout, Stderr,
                                     Some("list_local_branches"), render_area))
                    => local_branches_tab'.view.selected_index
                           = position_current(LocalParsed[stdout].val)
          /\ \A stdout \in RemoteStdouts :
                (/\ RemoteParsed[stdout].ok
                 /\ RunCommandResult(Some(0), stdout, Stderr,
                                     Some("list_remote_branches"), render_area))
                    => remote_branches_tab'.view.selected_index = 0]_vars

\* some line of the listing is text that its parser rejects
HasUnparsableLocalLine(stdout) ==
    \E i \in 1 .. Len(split_lines(stdout)) :
        is_utf8(split_lines(stdout)[i]) /\ ~LocalBranch_from_str(split_lines(stdout)[i]).ok

HasUnparsableRemoteLine(stdout) ==
    \E i \in 1 .. Len(split_lines(stdout)) :
        is_utf8(split_lines(stdout)[i]) /\ ~RemoteBranch_from_str(split_lines(stdout)[i]).ok

\* C8: a listing result with a line that fails to parse changes nothing but
\* the error: both tabs (records, selection, filter, query) stay as they
\* were and error_message holds an error.
C8_UnparsableLineRejects ==
    [][\A render_area \in TabRenderAreas :
          /\ \A stdout \in LocalStdouts :
                (/\ HasUnparsableLocalLine(stdout)
                 /\ RunCommandResult(Some(0), stdout, Stderr,
                                     Some("list_local_branches"), render_area))
                    => /\ UNCHANGED <<local_branches_tab, remote_branches_tab>>
                       /\ error_message' # None
          /\ \A stdout \in RemoteStdouts :
                (/\ HasUnparsableRemoteLine(stdout)
                 /\ RunCommandResult(Some(0), stdout, Stderr,
                                     Some("list_remote_branches"), render_area))
                    => /\ UNCHANGED <<local_branches_tab, remote_branches_tab>>
                       /\ error_message' # None]_vars

\* C9: a listing result that is applied (it leaves no error) leaves one
\* record per line of its output: never only a prefix of the lines.
C9_ListingWholeOrNot ==
    [][\A render_area \in TabRenderAreas :
          /\ \A stdout \in LocalStdouts :
                (/\ RunCommandResult(Some(0), stdout, Stderr,
                                     Some("list_local_branches"), render_area)
                 /\ error_message' = None)
                    => Len(local_branches_tab'.view.branches) = Len(split_lines(stdout))
          /\ \A stdout \in RemoteStdouts :
                (/\ RunCommandResult(Some(0), stdout, Stderr,
                                     Some("list_remote_branches"), render_area)
                 /\ error_message' = None)
                    => Len(remote_branches_tab'.view.branches) = Len(split_lines(stdout))]_vars

\* C10: a key pressed while an error is showing only clears the error: no
\* command is issued, the plugin neither closes nor panics, and the active
\* tab, the working directory and both tabs stay as they were.
C10_KeyOnlyDismissesError ==
    [][(error_message # None /\ last_event'.kind = "key") =>
          /\ error_message' = None
          /\ issued' = <<>>
          /\ ~closed'
          /\ ~panicked'
          /\ UNCHANGED <<branch_type, cwd, local_branches_tab, remote_branches_tab>>]_vars

\* a key was pressed on a showing error, on the remote tab with a query
C10_KeyDismissedError ==
    /\ last_event.kind = "key"
    /\ last_event.dismissed
    /\ error_message = None
    /\ branch_type = "Remote"
    /\ remote_branches_tab.input # <<>>
    /\ ~closed

\* C11: every command result whose exit status is non-zero or missing
\* leaves an error showing, whatever its command tag: the text of its
\* stderr, in place of any error that was showing.
C11_FailedResultShowsError ==
    [][\A exit_code \in ExitCodes \ {Some(0)}, context \in Contexts :
          RunCommandResult(exit_code, <<>>, Stderr, context, None)
              => error_message' = Some(from_utf8_lossy(Stderr))]_vars

\* the view the keys of the showing tab act on
active_view(g) ==
    current_view(IF g.branch_type = "Local" THEN g.local_branches_tab
                 ELSE g.remote_branches_tab)

\* C12: a key whose action needs the selected record (Enter, Ctrl-d, Ctrl-x,
\* Ctrl-f, Ctrl-l on the local tab; Enter, Ctrl-l on the remote tab), pressed
\* while the active view has no records, issues no command (and does not
\* panic).
C12_NoRecordNoCommand ==
    (Running /\ active_view(Git).branches = <<>>) =>
        \A key \in Keys :
            reads_selected(Git, key) =>
                /\ handle_key_input(Git, key, None).issued = <<>>
                /\ ~handle_key_input(Git, key, None).panicked

\* such a key was pressed on the local tab, whose filter matches none of
\* its records
C12_PressedOnEmptyFilter ==
    /\ last_event.kind = "key"
    /\ last_event.selecting
    /\ branch_type = "Local"
    /\ local_branches_tab.view.branches # <<>>
    /\ active_view(Git).branches = <<>>
    /\ issued = <<>>
    /\ ~panicked

\* C13: Enter (switch) or Ctrl-f (fetch) pressed on the local tab while no
\* error is showing and the active view has no selected record ends with
\* an error message set.
C13_NoSelectionShowsError ==
    [][\A key \in {Key("Enter", "", FALSE), Key("Char", "f", TRUE)} :
          (/\ error_message = None
           /\ branch_type = "Local"
           /\ selected_branch(active_view(Git)) = None
           /\ KeyPressed(key, None))
              => error_message' # None]_vars

\* C14: Ctrl-f on a selected local record that has no upstream issues no
\* command and ends with an error message set; both tabs (records,
\* selection, query, filter) stay as they were.
C14_FetchWithoutUpstream ==
    LET selected == selected_branch(active_view(Git))
        fetched == handle_key_input(Git, Key("Char", "f", TRUE), None)
    IN  (/\ Running
         /\ error_message = None
         /\ branch_type = "Local"
         /\ selected \notin {None, Panic}
         /\ unwrap(selected).upstream_branch = None)
            => /\ fetched.issued = <<>>
               /\ ~fetched.panicked
               /\ fetched.git.error_message # None
               /\ fetched.git.local_branches_tab = local_branches_tab
               /\ fetched.git.remote_branches_tab = remote_branches_tab

\* the fetch of a record without upstream was refused: its message shows
C14_FetchRefused ==
    /\ last_event.kind = "key"
    /\ last_event.selecting
    /\ issued = <<>>
    /\ error_message
           = Some(Message("Local branch does not track any remote branch", <<>>, ""))
    /\ unwrap(selected_branch(active_view(Git))).upstream_branch = None

AllIn(s, S) == \A i \in 1 .. Len(s) : s[i] \in S

\* the commit sha of a parsed record
ShaOf(record) ==
    IF line_fields.form = "local" THEN record.commit_sha ELSE record.reference.sha

\* C15: a local or remote line whose sha token holds a character that is no
\* hex digit is a parse failure, and the commit_sha of every parsed record
\* is the whole sha token of its line, a non-empty string of hex digits.
C15_ShaStrictHex ==
    (line_parsed.op \in {"local", "remote"} /\ line_fields.form \in {"local", "commit"}) =>
        /\ ~AllIn(line_fields.sha, HexDigits) => ~line_parsed.result.ok
        /\ line_parsed.result.ok =>
              /\ ShaOf(line_parsed.result.val) = line_fields.sha
              /\ ShaOf(line_parsed.result.val) # <<>>
              /\ AllIn(ShaOf(line_parsed.result.val), HexDigits)

\* C16: the name of every record parsed from a local or remote line is
\* non-empty and holds no white space, also when it comes from a
\* parenthesized token.
C16_NameNoWhitespace ==
    (line_parsed.op \in {"local", "remote"} /\ line_parsed.result.ok) =>
        /\ line_parsed.result.val.name # <<>>
        /\ \A i \in 1 .. Len(line_parsed.result.val.name) :
              line_parsed.result.val.name[i] \notin AsciiWhitespace

\* C17: in a remote line the text after the name is read commit form
\* first: when it starts with a hex run the record holds a Commit of that
\* sha, its message the text after the run (past the white space dividing
\* them); otherwise, when it starts with "-> ", a Branch whose target is the
\* rest verbatim; otherwise the line is a parse failure.  The name is the
\* name token.
C17_RemoteReferenceForms ==
    line_parsed.op = "remote" =>
        LET text == RemoteReferenceText(line_fields)
            run == SpanIn(text, HexDigits)
            result == line_parsed.result
        IN  IF run > 0
            THEN /\ result.ok
                 /\ result.val.name = line_fields.name
                 /\ result.val.reference
                        = [kind |-> "Commit", sha |-> Take(text, run),
                           message |-> Drop(text, run + SpanIn(Drop(text, run), MultiSpace))]
            ELSE IF StartsWith(text, <<"-", ">", " ">>)
            THEN /\ result.ok
                 /\ result.val.name = line_fields.name
                 /\ result.val.reference = [kind |-> "Branch", target |-> Drop(text, 3)]
            ELSE ~result.ok

\* "  o/H -> o/m" was parsed to the name "o/H" and a Branch of "o/m"
C17_ParsedSymbolicHead ==
    /\ line_parsed.op = "remote"
    /\ RemoteLine(line_fields)
           = <<" ", " ", "o", "/", "H", " ", "-", ">", " ", "o", "/", "m">>
    /\ line_parsed.result.ok
    /\ line_parsed.result.val
           = [name |-> <<"o", "/", "H">>,
              reference |-> [kind |-> "Branch", target |-> <<"o", "/", "m">>]]

\* a local line of the shape: optional "*", a bare name, a hex sha, an
\* optional closed, non-empty bracket group, a message
WellFormedLocal(f) ==
    /\ f.form = "local"
    /\ AllIn(f.name, AsciiAlphanumeric)
    /\ AllIn(f.sha, HexDigits)
    /\ f.upstream # <<>> => (Len(f.upstream) > 2 /\ f.upstream[Len(f.upstream)] = "]")
    /\ f.upstream = <<>> => ~StartsWith(f.message, <<"[">>)

\* C18: a well-formed local line parses to the record whose current is
\* TRUE exactly when the "*" is there, whose name and commit_sha are the
\* tokens, whose upstream_branch is the text between the brackets (None
\* without a bracket group) and whose commit_message is the rest of the
\* line verbatim.
C18_LocalLineFields ==
    (line_parsed.op = "local" /\ WellFormedLocal(line_fields)) =>
        /\ line_parsed.result.ok
        /\ line_parsed.result.val
               = [name |-> line_fields.name,
                  current |-> line_fields.current,
                  commit_sha |-> line_fields.sha,
                  upstream_branch |->
                      IF line_fields.upstream = <<>> THEN None
                      ELSE Some(SubSeq(line_fields.upstream, 2,
                                       Len(line_fields.upstream) - 1)),
                  commit_message |-> line_fields.message]

\* "* ab 2b [o/b] [x] y" was parsed: current, upstream "o/b", and a message
\* that itself starts with a bracket group
C18_ParsedCurrentWithUpstream ==
    /\ line_parsed.op = "local"
    /\ WellFormedLocal(line_fields)
    /\ line_fields.current
    /\ line_fields.message = <<"[", "x", "]", " ", "y">>
    /\ line_parsed.result.ok
    /\ line_parsed.result.val.current
    /\ line_parsed.result.val.upstream_branch = Some(<<"o", "/", "b">>)
    /\ line_parsed.result.val.commit_message = <<"[", "x", "]", " ", "y">>

\* the list of the showing tab is drawn by a render: its tab has asked for
\* its listing before, and no error is showing
Drawn(g) ==
    /\ g.error_message = None
    /\ IF g.branch_type = "Local" THEN g.local_branches_tab.inited
       ELSE g.remote_branches_tab.inited

\* C19: whenever a render draws the list, for a render area tall enough to
\* have a capacity (9 rows or more), the active view has scroll_offset <=
\* selected_index <= scroll_offset + visible_branch_count(render area).
C19_SelectedInsideWindow ==
    [][(RenderEvent /\ Drawn(Git)) =>
          \A render_area \in RenderAreas :
              render_area.height >= 9 =>
                  /\ active_view(Git).scroll_offset' <= active_view(Git).selected_index'
                  /\ active_view(Git).selected_index'
                         <= active_view(Git).scroll_offset'
                                + visible_branch_count(render_area)]_vars

\* C20: scroll_selected_to_view, called with any render area on any view of
\* either tab at any scroll_offset, returns the view with the same
\* selected_index and the same records; and a render (the event a resize of
\* the pane arrives as) leaves the full view, the filtered view and the input
\* of both tabs as they were.
C20_ScrollKeepsSelection ==
    /\ \A tab \in Tabs : \A view \in ViewsOf(tab) :
           \A offset \in 0..Len(view.branches), render_area \in RenderAreas :
               LET before == [view EXCEPT !.scroll_offset = offset]
                   after == scroll_selected_to_view(before, render_area)
               IN /\ after.selected_index = before.selected_index
                  /\ after.branches = before.branches
    /\ Running =>
           LET after == render(Git).git IN
           /\ after.local_branches_tab =
                  [local_branches_tab EXCEPT !.inited = after.local_branches_tab.inited]
           /\ after.remote_branches_tab =
                  [remote_branches_tab EXCEPT !.inited = after.remote_branches_tab.inited]

\* a render has drawn a list whose selection is not the first record, and a
\* scroll for some render area would move its window
C20_RenderedScrollable ==
    /\ last_event.kind = "render"
    /\ Drawn(Git)
    /\ active_view(Git).selected_index > 0
    /\ \E render_area \in RenderAreas :
           scroll_selected_to_view(active_view(Git), render_area).scroll_offset
               # active_view(Git).scroll_offset

\* the event that led to this state is a result with the exit status given
ResultWith(event, exit_code) == event.kind = "result" /\ event.exit_code = exit_code

\* C21: a result with a non-zero exit status sets error_message to the text
\* of its stderr, issues no command and leaves both tabs (records,
\* selections, queries, filtered views), the active tab and cwd as they
\* were.
C21_FailedResultOnlySetsError ==
    [][ResultWith(last_event', Some(1)) =>
          /\ error_message' = Some(from_utf8_lossy(Stderr))
          /\ issued' = <<>>
          /\ local_branches_tab' = local_branches_tab
          /\ remote_branches_tab' = remote_branches_tab
          /\ branch_type' = branch_type
          /\ cwd' = cwd
          /\ ~closed' /\ ~panicked']_vars

\* a command failed while the local tab showed a filtered list
C21_FailedWhileFiltered ==
    /\ ResultWith(last_event, Some(1))
    /\ error_message = Some(from_utf8_lossy(Stderr))
    /\ issued = <<>>
    /\ local_branches_tab.filtered_view # None
    /\ local_branches_tab.view.branches # <<>>

C23_LastDeliveredListingWins ==
    Running =>
        \A render_area \in TabRenderAreas :
            /\ \A stdout \in LocalStdouts :
                   LocalParsed[stdout].ok =>
                       LET after == update_run_command_result(
                                        Git, Some(0), stdout, Stderr,
                                        Some("list_local_branches"), render_area)
                       IN  /\ ~after.panicked
                           /\ after.git.local_branches_tab.view.branches
                                  = LocalParsed[stdout].val
            /\ \A stdout \in RemoteStdouts :
                   RemoteParsed[stdout].ok =>
                       LET after == update_run_command_result(
                                        Git, Some(0), stdout, Stderr,
                                        Some("list_remote_branches"), render_area)
                       IN  /\ ~after.panicked
                           /\ after.git.remote_branches_tab.view.branches
                                  = RemoteParsed[stdout].val

\* a remote listing of one record was applied over an earlier one of two
\* records, whose second record had been selected
C23_LaterListingReplaced ==
    /\ ResultWith(last_event, Some(0))
    /\ remote_branches_tab.view.branches = RemoteParsed[Stdout(<<RemoteLineAb>>)].val
    /\ remote_branches_tab.view.selected_index = 1

\* C24: select_down, select_up, push_to_input, and pop_from_input that
\* leaves a non-empty input, applied to a tab that has a filtered view, leave
\* the records and the selected_index of the full view as they were.
C24_FullViewUntouchedWhileFiltered ==
    (/\ htop.op \in {"select_down", "select_up", "push_to_input", "pop_from_input"}
     /\ htop.before.filtered_view # None
     /\ htab.input # <<>>) =>
        /\ htab.view.branches = htop.before.view.branches
        /\ htab.view.selected_index = htop.before.view.selected_index

\* select_down moved the selection of the filtered view away from that of
\* the full view
C24_FilteredSelectionMoved ==
    /\ htop.op = "select_down"
    /\ htop.before.filtered_view # None
    /\ htab.filtered_view # None
    /\ unwrap(htab.filtered_view).selected_index
           # unwrap(htop.before.filtered_view).selected_index
    /\ unwrap(htab.filtered_view).selected_index # htab.view.selected_index

\* C25: pop_from_input on an empty input changes nothing; pop_from_input
\* that empties the input leaves no filtered view and the full view with the
\* records and the selected_index it had when the first character was typed,
\* whatever was selected or typed in between.
C25_TypeThenEraseRestores ==
    htop.op = "pop_from_input" =>
        IF htop.before.input = <<>>
        THEN htab = htop.before
        ELSE htab.input = <<>> =>
                 /\ htab.filtered_view = None
                 /\ htab.view.branches = horigin.view.branches
                 /\ htab.view.selected_index = horigin.view.selected_index

\* the last character was erased after the selection of the filtered view
\* had been moved, over a full view whose selection is not the first record
C25_ErasedAfterSelecting ==
    /\ htop.op = "pop_from_input"
    /\ Len(htop.before.input) = 1
    /\ htab.input = <<>>
    /\ unwrap(htop.before.filtered_view).selected_index > 0
    /\ htab.view.selected_index > 0
    /\ htab.view.selected_index # unwrap(htop.before.filtered_view).selected_index

\* the view the user sees, told by the query: the filtered view when
\* something is typed, the full view otherwise
ShownView(tab) == IF tab.input # <<>> THEN unwrap(tab.filtered_view) ELSE tab.view

\* the commands that name a record: switch, delete, force delete, log, fetch
\* of a local record; track, log of a remote one
CommandsNaming(record, type) ==
    IF type = "Local"
    THEN {switch_to_branch(record), delete_branch(record.name, FALSE),
          delete_branch(record.name, TRUE), open_log_pane(record.name)}
             \cup (IF fetch(record).ok THEN {fetch(record).val} ELSE {})
    ELSE {track_remote_branch(record), open_log_pane(record.name)}

\* C26: when a key that acts on the selected record (Enter, Ctrl-d, Ctrl-x,
\* Ctrl-f, Ctrl-l) issues a command, it issues exactly one, and that command
\* names the record at selected_index of the view shown by the active tab:
\* the filtered view when the query is non-empty, the full view otherwise.
C26_CommandNamesShownSelection ==
    [][(last_event'.kind = "key" /\ last_event'.selecting /\ issued' # <<>>) =>
          LET tab == IF branch_type = "Local" THEN local_branches_tab
                     ELSE remote_branches_tab
              view == ShownView(tab)
          IN  /\ view.selected_index < Len(view.branches)
              /\ Len(issued') = 1
              /\ issued'[1] \in CommandsNaming(view.branches[view.selected_index + 1],
                                               branch_type)]_vars

\* a command was issued for the selected record of a filtered local list,
\* which is not the record selected in the full list
C26_IssuedForFilteredSelection ==
    /\ last_event.kind = "key" /\ last_event.selecting
    /\ issued # <<>>
    /\ branch_type = "Local"
    /\ local_branches_tab.input # <<>>
    /\ LET filtered == unwrap(local_branches_tab.filtered_view)
           full == local_branches_tab.view
       IN  /\ filtered.branches[filtered.selected_index + 1].name
                  # full.branches[full.selected_index + 1].name
           /\ issued[1].texts = <<filtered.branches[filtered.selected_index + 1].name>>

\* the token opens a group and never closes it
Unterminated(token, open, close) ==
    /\ token # <<>>
    /\ token[1] = open
    /\ \A i \in 1 .. Len(token) : token[i] # close

\* C27: a local line whose bracket group opens with "[" and has no "]", or
\* whose name opens with "(" and has no ")", is rejected by from_str.
C27_UnterminatedGroupRejected ==
    (/\ line_parsed.op = "local"
     /\ \/ Unterminated(line_fields.upstream, "[", "]")
        \/ Unterminated(line_fields.name, "(", ")")) =>
        ~line_parsed.result.ok

\* the error message a result leaves
ErrorAfterResult(exit_code, stdout, context) ==
    update_run_command_result(Git, exit_code, stdout, Stderr, context, None)
        .git.error_message

\* C28: while an error message is showing, every key clears it; a result
\* with a non-zero exit status replaces it by the text of its stderr; a
\* listing result with exit status 0 clears it when its lines parse and
\* replaces it by the parse error when they do not; and a successful result
\* with any other tag or none, a result without exit status, a render and a
\* pipe message leave it as it is.
C28_ErrorStaysUntilReplacedOrCleared ==
    (Running /\ error_message # None) =>
        /\ \A key \in Keys :
               handle_key_input(Git, key, None).git.error_message = None
        /\ \A context \in Contexts :
               ErrorAfterResult(Some(1), <<>>, context) = Some(from_utf8_lossy(Stderr))
        /\ \A stdout \in LocalStdouts :
               ErrorAfterResult(Some(0), stdout, Some("list_local_branches"))
                   = IF LocalParsed[stdout].ok THEN None
                     ELSE Some(LocalParsed[stdout].err)
        /\ \A stdout \in RemoteStdouts :
               ErrorAfterResult(Some(0), stdout, Some("list_remote_branches"))
                   = IF RemoteParsed[stdout].ok THEN None
                     ELSE Some(RemoteParsed[stdout].err)
        /\ \A context \in Contexts \ {Some("list_local_branches"),
                                      Some("list_remote_branches")} :
               ErrorAfterResult(Some(0), <<>>, context) = error_message
        /\ \A context \in Contexts : ErrorAfterResult(None, <<>>, context) = error_message
        /\ render(Git).git.error_message = error_message
        /\ \A name \in {"cwd", "other"}, payload \in {None, Some(InitialCwd)} :
               pipe(Git, name, payload).git.error_message = error_message

\* a listing result arrived while an error was showing and cleared it, no
\* key having been pressed
C28_ListingClearedError ==
    /\ ResultWith(last_event, Some(0))
    /\ last_event.met_error
    /\ error_message = None
    /\ issued = <<>>

\* C29: the full records of a tab change only in a step that delivers a
\* result with exit status 0, issues nothing, leaves the other tab as it was
\* and leaves the records parsed from a listing of that tab's kind; and a key
\* changes nothing of the tab that is not the active one.
C29_RecordsChangeOnlyByOwnListing ==
    [][/\ local_branches_tab'.view.branches # local_branches_tab.view.branches =>
              /\ ResultWith(last_event', Some(0))
              /\ issued' = <<>>
              /\ remote_branches_tab' = remote_branches_tab
              /\ \E stdout \in LocalStdouts :
                     /\ LocalParsed[stdout].ok
                     /\ local_branches_tab'.view.branches = LocalParsed[stdout].val
       /\ remote_branches_tab'.view.branches # remote_branches_tab.view.branches =>
              /\ ResultWith(last_event', Some(0))
              /\ issued' = <<>>
              /\ local_branches_tab' = local_branches_tab
              /\ \E stdout \in RemoteStdouts :
                     /\ RemoteParsed[stdout].ok
                     /\ remote_branches_tab'.view.branches = RemoteParsed[stdout].val
       /\ last_event'.kind = "key" =>
              IF branch_type = "Local"
              THEN remote_branches_tab' = remote_branches_tab
              ELSE local_branches_tab' = local_branches_tab]_vars

\* a character was typed on the remote tab while the local tab, not active,
\* held records, a moved selection and a filter of its own
C29_TypedOnRemoteBesideLocalFilter ==
    /\ last_event.kind = "key"
    /\ branch_type = "Remote"
    /\ remote_branches_tab.input # <<>>
    /\ remote_branches_tab.view.branches # <<>>
    /\ local_branches_tab.input # <<>>
    /\ local_branches_tab.view.branches # <<>>
    /\ unwrap(local_branches_tab.filtered_view).selected_index > 0

====
